---- MODULE Spec2Model ----
(***************************************************************************)
(* A model of the .SER (TIA/Emispec) series decoder of                     *)
(* src/sereader/convert_to_png.py.  The decoder is the script's __main__   *)
(* pipeline: header, dimension array, the two offset arrays, then one tag  *)
(* and one data element per dimension.  The byte buffer is a sequence of   *)
(* numbers 0..255, a Python slice is clipped to the buffer as Python does, *)
(* and every raise of the code (assert, struct.error, UnicodeDecodeError,  *)
(* OverflowError, NameError, UnboundLocalError, IndexError) ends the run   *)
(* at the statement pc names, with err naming the raise.  The image of a   *)
(* decoded 2-D element goes to ./test_output.png, and the script may be    *)
(* run a second time on the same file.                                     *)
(***************************************************************************)
EXTENDS Integers, Sequences, FiniteSets, TLC

(***************************************************************************)
(* Bounds of the model.                                                    *)
(***************************************************************************)
\* the largest number of dimensions (= elements) of a generated series
MaxDims == 2
\* integers at or above Huge are kept as Huge: they lie beyond every buffer
\* of the model, and the decoder uses them only as slice positions/lengths
Huge == 16777216

(***************************************************************************)
(* Program constants: the codes the decoder compares against.              *)
(***************************************************************************)
ByteOrderMark == 18761        \* 0x4949
SeriesID == 407               \* 0x197
Version210 == 528             \* 0x210
Version220 == 544             \* 0x220
DataType1D == 16672           \* 0x4120
DataType2D == 16674           \* 0x4122
ListedDataTypeA == 5152       \* 0x1420, an entry of valid_data_type_ID_list
ListedDataTypeB == 5154       \* 0x1422, an entry of valid_data_type_ID_list
TagTimeOnly == 16722          \* 0x4152
TagTimeAndPosition == 16706   \* 0x4142
SampleU16 == 2                \* DataType == 2: unsigned 16-bit samples

(***************************************************************************)
(* Bytes, slices and the conversions of the standard library.              *)
(***************************************************************************)
Min(a, b) == IF a < b THEN a ELSE b

\* byte_array[lo:hi] of Python: clipped to the buffer, empty when lo >= hi
Slice(b, lo, hi) ==
    IF lo >= Len(b) \/ hi <= lo THEN <<>>
    ELSE SubSeq(b, lo + 1, Min(hi, Len(b)))

RECURSIVE FromBytesLE(_)
\* int.from_bytes(s, 'little'), kept at Huge from Huge on
FromBytesLE(s) ==
    IF s = <<>> THEN 0
    ELSE LET r == FromBytesLE(Tail(s))
         IN  IF r >= Huge \div 256 THEN Huge
             ELSE Min(Head(s) + 256 * r, Huge)

\* the little-endian integer of s does not fit a signed 64-bit numpy cell
ExceedsInt64(s) ==
    \E k \in 1..Len(s) : (k > 8 /\ s[k] # 0) \/ (k = 8 /\ s[k] >= 128)

\* struct.unpack('<d', s) and struct.unpack('<H', s) need exactly that many bytes
UnpackOk(s, n) == Len(s) = n

\* a float64 is kept as its 8 bytes; these are IEEE-754 facts about them
IsNaN(f) ==
    /\ f[8] % 128 = 127
    /\ f[7] \div 16 = 15
    /\ (f[7] % 16 # 0 \/ \E i \in 1..6 : f[i] # 0)

IsZero(f) == f[8] % 128 = 0 /\ \A i \in 1..7 : f[i] = 0

\* the == of two Python floats
FloatEq(f, g) == ~IsNaN(f) /\ ~IsNaN(g) /\ (f = g \/ (IsZero(f) /\ IsZero(g)))

Cont(s, i) == i <= Len(s) /\ s[i] >= 128 /\ s[i] <= 191

RECURSIVE Utf8From(_, _)
\* str(s, 'utf-8') does not raise UnicodeDecodeError on s[i..]
Utf8From(s, i) ==
    IF i > Len(s) THEN TRUE
    ELSE LET c == s[i]
         IN  IF c <= 127 THEN Utf8From(s, i + 1)
             ELSE IF c >= 194 /\ c <= 223
                  THEN Cont(s, i + 1) /\ Utf8From(s, i + 2)
             ELSE IF c >= 224 /\ c <= 239
                  THEN /\ Cont(s, i + 1) /\ Cont(s, i + 2)
                       /\ (c = 224 => s[i + 1] >= 160)
                       /\ (c = 237 => s[i + 1] <= 159)
                       /\ Utf8From(s, i + 3)
             ELSE IF c >= 240 /\ c <= 244
                  THEN /\ Cont(s, i + 1) /\ Cont(s, i + 2) /\ Cont(s, i + 3)
                       /\ (c = 240 => s[i + 1] >= 144)
                       /\ (c = 244 => s[i + 1] <= 143)
                       /\ Utf8From(s, i + 4)
             ELSE FALSE

Utf8Ok(s) == Utf8From(s, 1)

\* X * Y of two sizes, kept at Huge from Huge on
SizeProduct(x, y) ==
    IF x = 0 \/ y = 0 THEN 0
    ELSE IF x >= Huge \/ y >= Huge \/ x > Huge \div y THEN Huge
    ELSE Min(x * y, Huge)

RECURSIVE UnpackU16(_)
\* struct.unpack("<nH", s) for a slice of exactly 2n bytes
UnpackU16(s) ==
    IF Len(s) < 2 THEN <<>>
    ELSE <<s[1] + 256 * s[2]>> \o UnpackU16(SubSeq(s, 3, Len(s)))

(***************************************************************************)
(* The header functions.                                                   *)
(***************************************************************************)
valid_series_ID_list == {SeriesID}
valid_series_Version_list == {Version210, Version220}
valid_data_type_ID_list == {ListedDataTypeA, ListedDataTypeB}
valid_tag_type_ID_list == {TagTimeOnly, TagTimeAndPosition}

ByteOrderOf(b) == FromBytesLE(Slice(b, 0, 2))
SeriesIDOf(b) == FromBytesLE(Slice(b, 2, 4))
SeriesVersionOf(b) == FromBytesLE(Slice(b, 4, 6))

\* the series ID and version asserted before the byte order
check_series_ID_first(b) ==
    IF SeriesIDOf(b) \notin valid_series_ID_list THEN "InvalidSeriesID"
    ELSE IF SeriesVersionOf(b) \notin valid_series_Version_list
         THEN "UnsupportedVersion"
    ELSE IF ByteOrderOf(b) # ByteOrderMark THEN "InvalidByteOrder"
    ELSE "none"

\* the first assert of check_series_ID_and_Version that fails, or "none"
check_series_ID_and_Version(b) ==
    IF ByteOrderOf(b) # ByteOrderMark THEN "InvalidByteOrder"
    ELSE IF SeriesIDOf(b) \notin valid_series_ID_list THEN "InvalidSeriesID"
    ELSE IF SeriesVersionOf(b) \notin valid_series_Version_list
         THEN "UnsupportedVersion"
    ELSE "none"

DataTypeIDOf(b) == FromBytesLE(Slice(b, 6, 10))
TagTypeIDOf(b) == FromBytesLE(Slice(b, 10, 14))

\* the data type branch of get_data_and_tag_ID does not raise
DataTypeAccepted(d) ==
    d = DataType1D \/ d = DataType2D \/ d \in valid_data_type_ID_list

\* the tag type branch of get_data_and_tag_ID does not raise
TagTypeAccepted(t) ==
    t = TagTimeOnly \/ t = TagTimeAndPosition \/ t \in valid_tag_type_ID_list

get_data_and_tag_ID(b) ==
    IF ~DataTypeAccepted(DataTypeIDOf(b)) THEN "UnsupportedDataType"
    ELSE IF ~TagTypeAccepted(TagTypeIDOf(b)) THEN "UnsupportedTagType"
    ELSE "none"

N_total_element(b) == FromBytesLE(Slice(b, 14, 18))
N_valid_element(b) == FromBytesLE(Slice(b, 18, 22))

\* an assert that takes unequal counts for a failure
get_total_and_valid_element_num_equal_only(b) ==
    IF N_total_element(b) = N_valid_element(b) THEN "none"
    ELSE "InvalidElementCount"

get_total_and_valid_element_num(b) ==
    IF N_total_element(b) >= N_valid_element(b) THEN "none"
    ELSE "InvalidElementCount"

\* one width for both versions
OffsetLength_always_4(SeriesVersion) == 4
\* Offset_Array_Offset_length of a valid series version
OffsetLength(SeriesVersion) == IF SeriesVersion = Version210 THEN 4 ELSE 8

get_Offset_Array_Offset(b, SeriesVersion) ==
    FromBytesLE(Slice(b, 22, 22 + OffsetLength(SeriesVersion)))

get_Number_of_Dimensions(b, W) == FromBytesLE(Slice(b, 22 + W, 22 + W + 4))

(***************************************************************************)
(* The dimension array functions; dm is dim_byte_offset.                   *)
(***************************************************************************)
\* byte_offset of get_Dimension_Size: where a descriptor is read
DimCursor(W, dm) == 26 + W + dm

get_Dimension_Size(b, W, dm) ==
    FromBytesLE(Slice(b, DimCursor(W, dm), DimCursor(W, dm) + 4))

CalibrationOffsetBytes(b, W, dm) == Slice(b, 30 + W + dm, 30 + W + dm + 8)
CalibrationDeltaBytes(b, W, dm) == Slice(b, 30 + W + dm + 8, 30 + W + dm + 16)
CalibrationElementOf(b, W, dm) ==
    FromBytesLE(Slice(b, 30 + W + dm + 16, 30 + W + dm + 20))

\* get_Calibration_Element does not raise struct.error
get_Calibration_Element_Ok(b, W, dm) ==
    /\ UnpackOk(CalibrationOffsetBytes(b, W, dm), 8)
    /\ UnpackOk(CalibrationDeltaBytes(b, W, dm), 8)

DescriptionLengthPos(W, dm) == 50 + W + dm

get_Description_Length(b, W, dm) ==
    FromBytesLE(Slice(b, DescriptionLengthPos(W, dm), DescriptionLengthPos(W, dm) + 4))

get_Element_Description(b, W, dlen, dm) ==
    Slice(b, 54 + W + dm, 54 + W + dm + dlen)

UnitsLengthPos(W, dlen, dm) == 54 + W + dlen + dm

get_Units_Length(b, W, dlen, dm) ==
    FromBytesLE(Slice(b, UnitsLengthPos(W, dlen, dm), UnitsLengthPos(W, dlen, dm) + 4))

get_Units_Description(b, W, dlen, ulen, dm) ==
    Slice(b, 58 + W + dlen + dm, 58 + W + dlen + dm + ulen)

\* what one pass of the dimension loop adds to DM_offset (kept at Huge)
\* a loop that adds only the description length
DM_advance_description_only(dlen, ulen) == dlen
DM_advance(dlen, ulen) == Min(dlen + ulen, Huge)


\* an end offset that leaves out the 32 fixed bytes of each descriptor
End_without_fixed_fields(W, N, dm) == 26 + W + dm
\* dimensions_array_end_byte_offset of __main__
dimensions_array_end_byte_offset(W, N, dm) == 26 + W + ((32 * N) + dm)

(***************************************************************************)
(* The offset arrays; i counts from 0 as NElement does.                    *)
(***************************************************************************)
DataOffsetBytes(b, OffsetArrayOffset, W, i) ==
    Slice(b, OffsetArrayOffset, OffsetArrayOffset + (i + 1) * W)

get_Data_Offset_Array(b, OffsetArrayOffset, W, N) ==
    [i \in 1..N |-> FromBytesLE(DataOffsetBytes(b, OffsetArrayOffset, W, i - 1))]

get_Data_Offset_Array_Overflows(b, OffsetArrayOffset, W, N) ==
    \E i \in 1..N : ExceedsInt64(DataOffsetBytes(b, OffsetArrayOffset, W, i - 1))

TagOffsetBytes(b, OffsetArrayOffset, W, DataLen, i) ==
    LET byte_offset_start == OffsetArrayOffset + (DataLen * W)
    IN  Slice(b, byte_offset_start, byte_offset_start + (i + 1) * W)

get_Tag_Offset_Array(b, OffsetArrayOffset, W, N, DataLen) ==
    [i \in 1..N |->
        FromBytesLE(TagOffsetBytes(b, OffsetArrayOffset, W, DataLen, i - 1))]

get_Tag_Offset_Array_Overflows(b, OffsetArrayOffset, W, N, DataLen) ==
    \E i \in 1..N :
        ExceedsInt64(TagOffsetBytes(b, OffsetArrayOffset, W, DataLen, i - 1))

(***************************************************************************)
(* The tag functions.                                                      *)
(***************************************************************************)
TagDiscriminator(b, TagOffset) == FromBytesLE(Slice(b, TagOffset, TagOffset + 4))

\* a tag check against the list of tag types instead of the header's
TagTypeListed(b, TagOffset, TagTypeID) ==
    TagDiscriminator(b, TagOffset) \in valid_tag_type_ID_list

\* the assert of get_TimeOnlyTag and get_Time_and_PositionTag passes
TagTypeMatches(b, TagOffset, TagTypeID) ==
    TagDiscriminator(b, TagOffset) = TagTypeID

TagTimeStamp(b, TagOffset) == FromBytesLE(Slice(b, TagOffset + 4, TagOffset + 8))

PositionXBytes(b, TagOffset) == Slice(b, TagOffset + 8, TagOffset + 16)
PositionYBytes(b, TagOffset) == Slice(b, TagOffset + 16, TagOffset + 16)

(***************************************************************************)
(* The data element functions; d is DataOffset.                            *)
(***************************************************************************)
Calibration_Offset_X(b, d) == Slice(b, d, d + 8)
Calibration_Delta_X(b, d) == Slice(b, d + 8, d + 16)
Calibration_Element_X(b, d) == FromBytesLE(Slice(b, d + 16, d + 20))
Calibration_Offset_Y(b, d) == Slice(b, d + 20, d + 28)
Calibration_Delta_Y(b, d) == Slice(b, d + 28, d + 36)
Calibration_Element_Y(b, d) == FromBytesLE(Slice(b, d + 36, d + 40))
DataType2DBytes(b, d) == Slice(b, d + 40, d + 42)
Data_Array_Size_X(b, d) == FromBytesLE(Slice(b, d + 42, d + 46))
Data_Array_Size_Y(b, d) == FromBytesLE(Slice(b, d + 46, d + 50))

\* the four struct.unpack('<d') of get_2DdataElementHeader do not raise
Calibration2DReadable(b, d) ==
    /\ UnpackOk(Calibration_Offset_X(b, d), 8)
    /\ UnpackOk(Calibration_Delta_X(b, d), 8)
    /\ UnpackOk(Calibration_Offset_Y(b, d), 8)
    /\ UnpackOk(Calibration_Delta_Y(b, d), 8)

\* get_2DdataElementHeader without its second assert
get_2DdataElementHeader_offset_only(b, d) ==
    IF ~Calibration2DReadable(b, d) THEN "StructError"
    ELSE IF ~FloatEq(Calibration_Offset_X(b, d), Calibration_Offset_Y(b, d))
         THEN "AnisotropicCalibrationMismatch"
    ELSE IF ~UnpackOk(DataType2DBytes(b, d), 2) THEN "StructError"
    ELSE "none"

\* the first raise of get_2DdataElementHeader, or "none"
get_2DdataElementHeader(b, d) ==
    IF ~Calibration2DReadable(b, d) THEN "StructError"
    ELSE IF ~FloatEq(Calibration_Offset_X(b, d), Calibration_Offset_Y(b, d))
         THEN "AnisotropicCalibrationMismatch"
    ELSE IF ~FloatEq(Calibration_Delta_X(b, d), Calibration_Delta_Y(b, d))
         THEN "AnisotropicCalibrationMismatch"
    ELSE IF ~UnpackOk(DataType2DBytes(b, d), 2) THEN "StructError"
    ELSE "none"

\* what get_2DdataElementHeader returns when it does not raise
Header2D(b, d) ==
    [offset |-> <<Calibration_Offset_X(b, d), Calibration_Offset_Y(b, d)>>,
     delta |-> <<Calibration_Delta_X(b, d), Calibration_Delta_Y(b, d)>>,
     element |-> <<Calibration_Element_X(b, d), Calibration_Element_Y(b, d)>>,
     dataType |-> FromBytesLE(DataType2DBytes(b, d)),
     size |-> <<Data_Array_Size_X(b, d), Data_Array_Size_Y(b, d)>>]

DataType1DBytes(b, d) == Slice(b, d + 20, d + 22)
Data_Array_Size(b, d) == FromBytesLE(Slice(b, d + 22, d + 26))

\* the first raise of get_1DdataElementHeader, or "none"
get_1DdataElementHeader(b, d) ==
    IF \/ ~UnpackOk(Calibration_Offset_X(b, d), 8)
       \/ ~UnpackOk(Calibration_Delta_X(b, d), 8)
       \/ ~UnpackOk(DataType1DBytes(b, d), 2)
    THEN "StructError"
    ELSE "none"

Header1D(b, d) ==
    [offset |-> Calibration_Offset_X(b, d),
     delta |-> Calibration_Delta_X(b, d),
     element |-> Calibration_Element_X(b, d),
     dataType |-> FromBytesLE(DataType1DBytes(b, d)),
     size |-> Data_Array_Size(b, d)]

\* the samples taken from where a 1-D element has them
ImageBytes_at_1D_position(b, d, X, Y) ==
    Slice(b, d + 26, d + 26 + 2 * SizeProduct(X, Y))
\* byte_array[byte_offset:byte_offset + Data_Array_byte_Size] of
\* get_2DdataElementData, for DataType == 2
ImageBytes(b, d, X, Y) ==
    Slice(b, d + 50, d + 50 + 2 * SizeProduct(X, Y))

\* the first raise of get_2DdataElementData, or "none"
get_2DdataElementData(b, d, DataType, X, Y) ==
    IF DataType # SampleU16 THEN "UnboundLocalError"
    ELSE IF SizeProduct(X, Y) >= Huge THEN "StructError"
    ELSE IF ~UnpackOk(ImageBytes(b, d, X, Y), 2 * SizeProduct(X, Y))
         THEN "StructError"
    ELSE "none"

Image_Array(b, d, X, Y) == UnpackU16(ImageBytes(b, d, X, Y))

\* ImageArray.reshape(DataSizeX, DataSizeY): X rows of Y samples
Reshape(a, X, Y) == [r \in 1..X |-> [c \in 1..Y |-> a[(r - 1) * Y + c]]]

\* what save_2DdataElemwntAsImage hands to plt.imsave: the reshaped samples,
\* of which the first X of each row are replaced by
\* OffsetValue + (sample - reference) * DeltaValue
ScaledImage(a, X, Y, OffsetValue, DeltaValue, ElementIndexX, ElementIndexY) ==
    [rows |-> Reshape(a, X, Y),
     reference |-> Reshape(a, X, Y)[ElementIndexX + 1][ElementIndexY + 1],
     OffsetValue |-> OffsetValue,
     DeltaValue |-> DeltaValue,
     scaled_columns |-> X]

\* no ./test_output.png has been written
NoImage == <<>>

(***************************************************************************)
(* The input files.  A file is laid out as the decoder's reads and the     *)
(* format lay it out: header, dimension descriptors (each 32 fixed bytes   *)
(* plus its two strings), data offsets, tag offsets, then per element its  *)
(* tag and its data.  A run decodes such a file, or such a file with one   *)
(* field overwritten or its tail cut off.                                  *)
(***************************************************************************)
Pow256(i) == IF i = 0 THEN 1 ELSE IF i = 1 THEN 256 ELSE IF i = 2 THEN 65536 ELSE 16777216

\* v.to_bytes(w, 'little') for v below 2^31
LEBytes(v, w) == [i \in 1..w |-> IF i <= 4 THEN (v \div Pow256(i - 1)) % 256 ELSE 0]

RECURSIVE Repeat(_, _)
Repeat(s, n) == IF n = 0 THEN <<>> ELSE s \o Repeat(s, n - 1)

FloatZero == <<0, 0, 0, 0, 0, 0, 0, 0>>
FloatNegZero == <<0, 0, 0, 0, 0, 0, 0, 128>>
FloatOne == <<0, 0, 0, 0, 0, 0, 240, 63>>
FloatTwo == <<0, 0, 0, 0, 0, 0, 0, 64>>
FloatNaN == <<0, 0, 0, 0, 0, 0, 248, 127>>

\* description and units strings of a descriptor: none; a description of
\* four bytes (U+0004 and three NULs) without units; "Number" in "nm"
StringChoices ==
    << [desc |-> <<>>, units |-> <<>>],
       [desc |-> <<4, 0, 0, 0>>, units |-> <<>>],
       [desc |-> <<78, 117, 109, 98, 101, 114>>, units |-> <<110, 109>>] >>

\* 1-D elements: four samples 1..4; eight samples whose calibration bytes
\* repeat at +20 and +28, where a 2-D header has its Y calibration
OneDChoices ==
    << [offset |-> FloatZero, delta |-> FloatOne, samples |-> <<1, 2, 3, 4>>],
       [offset |-> <<2, 0, 8, 0, 0, 0, 1, 0>>, delta |-> <<2, 0, 3, 0, 4, 0, 5, 0>>,
        samples |-> <<1, 2, 3, 4, 5, 6, 7, 8>>] >>

\* the 2-D element: 2 x 2 samples 10..13
ImageSamples == <<10, 11, 12, 13>>

Params ==
    {p \in [ver : {Version210, Version220},
            dtype : {DataType1D, DataType2D},
            ttype : {TagTimeOnly, TagTimeAndPosition},
            n : 0..MaxDims,
            strs : 1..Len(StringChoices),
            oned : 1..Len(OneDChoices)] :
        /\ (p.dtype = DataType2D => p.oned = 1)
        /\ (p.n = 0 => p.strs = 1 /\ p.oned = 1)}

RECURSIVE SamplesBytes(_)
SamplesBytes(v) == IF v = <<>> THEN <<>> ELSE LEBytes(Head(v), 2) \o SamplesBytes(Tail(v))

DescriptorBytes(p) ==
    LET c == StringChoices[p.strs]
    IN  LEBytes(p.n, 4) \o FloatZero \o FloatOne \o LEBytes(0, 4)
        \o LEBytes(Len(c.desc), 4) \o c.desc \o LEBytes(Len(c.units), 4) \o c.units

TagBytes(p, i) ==
    LEBytes(p.ttype, 4) \o LEBytes(1000000 + i, 4)
    \o (IF p.ttype = TagTimeAndPosition THEN FloatOne \o FloatTwo ELSE <<>>)

ElementBytes(p) ==
    IF p.dtype = DataType2D
    THEN FloatZero \o FloatOne \o LEBytes(0, 4) \o FloatZero \o FloatOne \o LEBytes(0, 4)
         \o LEBytes(SampleU16, 2) \o LEBytes(2, 4) \o LEBytes(2, 4)
         \o SamplesBytes(ImageSamples)
    ELSE LET c == OneDChoices[p.oned]
         IN  c.offset \o c.delta \o LEBytes(0, 4) \o LEBytes(SampleU16, 2)
             \o LEBytes(Len(c.samples), 4) \o SamplesBytes(c.samples)

WidthOf(p) == OffsetLength(p.ver)
OffsetArrayOffsetOf(p) == 26 + WidthOf(p) + p.n * Len(DescriptorBytes(p))
ElementsStart(p) == OffsetArrayOffsetOf(p) + 2 * p.n * WidthOf(p)
PairLen(p) == Len(TagBytes(p, 0)) + Len(ElementBytes(p))
\* where the file holds descriptor k, tag i and data element i (from 0)
DescriptorPos(p, k) == 26 + WidthOf(p) + k * Len(DescriptorBytes(p))
TagPos(p, i) == ElementsStart(p) + i * PairLen(p)
DataPos(p, i) == TagPos(p, i) + Len(TagBytes(p, 0))

RECURSIVE OffsetsBytes(_, _, _)
OffsetsBytes(p, i, data) ==
    IF i = p.n THEN <<>>
    ELSE LEBytes(IF data THEN DataPos(p, i) ELSE TagPos(p, i), WidthOf(p))
         \o OffsetsBytes(p, i + 1, data)

RECURSIVE PairsBytes(_, _)
PairsBytes(p, i) ==
    IF i = p.n THEN <<>> ELSE TagBytes(p, i) \o ElementBytes(p) \o PairsBytes(p, i + 1)

\* the well-formed file of parameters p
Build(p) ==
    LEBytes(ByteOrderMark, 2) \o LEBytes(SeriesID, 2) \o LEBytes(p.ver, 2)
    \o LEBytes(p.dtype, 4) \o LEBytes(p.ttype, 4) \o LEBytes(p.n, 4) \o LEBytes(p.n, 4)
    \o LEBytes(OffsetArrayOffsetOf(p), WidthOf(p)) \o LEBytes(p.n, 4)
    \o Repeat(DescriptorBytes(p), p.n)
    \o OffsetsBytes(p, 0, TRUE) \o OffsetsBytes(p, 0, FALSE)
    \o PairsBytes(p, 0)

\* one change to a well-formed file: kind names the field overwritten at
\* byte pos with the bytes new ("truncate" keeps the first pos bytes);
\* k is the descriptor or element the field belongs to
Change(kind, k, pos, new) == [kind |-> kind, k |-> k, pos |-> pos, new |-> new]

NoChange == Change("none", 0, 0, <<>>)

LengthValues == {0, 2, 4, 6}

HeaderChanges ==
    {Change("byteOrder", 0, 0, LEBytes(19789, 2)),
     Change("seriesID", 0, 2, LEBytes(408, 2)),
     Change("version", 0, 4, LEBytes(512, 2)),
     Change("dataTypeID", 0, 6, LEBytes(ListedDataTypeA, 4)),
     Change("dataTypeID", 0, 6, LEBytes(ListedDataTypeB, 4)),
     Change("dataTypeID", 0, 6, LEBytes(16673, 4)),
     Change("tagTypeID", 0, 10, LEBytes(16723, 4))}

\* files on which several header checks would fail: from the byte order
\* mark, the series ID, the version or the data type ID on, every code up to
\* the tag type ID is one the decoder does not know
SeveralHeaderChanges ==
    {Change("header", 0, 0, LEBytes(19789, 2) \o LEBytes(408, 2) \o LEBytes(512, 2)
                            \o LEBytes(16673, 4) \o LEBytes(16723, 4)),
     Change("header", 0, 2, LEBytes(408, 2) \o LEBytes(512, 2)
                            \o LEBytes(16673, 4) \o LEBytes(16723, 4)),
     Change("header", 0, 4, LEBytes(512, 2) \o LEBytes(16673, 4) \o LEBytes(16723, 4)),
     Change("header", 0, 6, LEBytes(16673, 4) \o LEBytes(16723, 4))}

CountChanges(p) ==
    {Change("totalCount", 0, 14, LEBytes(p.n + 1, 4)),
     Change("validCount", 0, 18, LEBytes(p.n + 1, 4))}

LengthChanges(p) ==
    LET c == StringChoices[p.strs]
    IN  {Change("descriptionLength", k, DescriptorPos(p, k) + 24, LEBytes(v, 4)) :
            k \in 0..(p.n - 1), v \in LengthValues \ {Len(c.desc)}}
        \cup
        {Change("unitsLength", k, DescriptorPos(p, k) + 28 + Len(c.desc), LEBytes(v, 4)) :
            k \in 0..(p.n - 1), v \in LengthValues \ {Len(c.units)}}

OtherTag(t) == IF t = TagTimeOnly THEN TagTimeAndPosition ELSE TagTimeOnly

TagChanges(p) ==
    {Change("tagType", i, TagPos(p, i), LEBytes(OtherTag(p.ttype), 4)) : i \in 0..(p.n - 1)}

\* changes to the calibration of a 2-D element: Y offset -0.0 against +0.0,
\* Y offset 1.0 against 0.0, both offsets the same NaN, Y delta 2.0 against 1.0
CalibrationChanges(p) ==
    IF p.dtype # DataType2D THEN {}
    ELSE UNION {
        {Change("offsetY", i, DataPos(p, i) + 20, FloatNegZero),
         Change("offsetY", i, DataPos(p, i) + 20, FloatOne),
         Change("offsetXY", i, DataPos(p, i),
                FloatNaN \o FloatOne \o LEBytes(0, 4) \o FloatNaN),
         Change("deltaY", i, DataPos(p, i) + 28, FloatTwo)} : i \in 0..(p.n - 1)}

\* changes to the 2-byte sample code of an element: 1 (8-bit unsigned in the
\* format) and 258, whose low byte alone is the 16-bit unsigned code
SampleCodePos(p, i) == DataPos(p, i) + (IF p.dtype = DataType2D THEN 40 ELSE 20)

SampleCodeChanges(p) ==
    {Change("sampleCode", i, SampleCodePos(p, i), LEBytes(v, 2)) :
        i \in 0..(p.n - 1), v \in {1, 258}}

\* changes to the sizes and the reference pixel of a 2-D element
SizeChanges(p) ==
    IF p.dtype # DataType2D THEN {}
    ELSE UNION {
        {Change("sizeX", i, DataPos(p, i) + 42, LEBytes(1, 4)),
         Change("sizeX", i, DataPos(p, i) + 42, LEBytes(3, 4)),
         Change("sizeY", i, DataPos(p, i) + 46, LEBytes(1, 4)),
         Change("sizeY", i, DataPos(p, i) + 46, LEBytes(3, 4)),
         Change("elementX", i, DataPos(p, i) + 16, LEBytes(2, 4))} : i \in 0..(p.n - 1)}

Truncations(p) ==
    {Change("truncate", 0, l, <<>>) :
        l \in {21, 26, 22 + WidthOf(p) + 2, OffsetArrayOffsetOf(p) + WidthOf(p),
               ElementsStart(p) + 6, Len(Build(p)) - 1}
             \cap 0..(Len(Build(p)) - 1)}

Changes(p) ==
    {NoChange} \cup HeaderChanges \cup SeveralHeaderChanges \cup CountChanges(p) \cup LengthChanges(p)
    \cup TagChanges(p) \cup CalibrationChanges(p) \cup SampleCodeChanges(p)
    \cup SizeChanges(p)
    \cup Truncations(p)

Apply(m, b) ==
    IF m.kind = "none" THEN b
    ELSE IF m.kind = "truncate" THEN SubSeq(b, 1, m.pos)
    ELSE [i \in 1..Len(b) |->
            IF i > m.pos /\ i <= m.pos + Len(m.new) THEN m.new[i - m.pos] ELSE b[i]]

(***************************************************************************)
(* The state of a run of __main__.                                         *)
(***************************************************************************)
VARIABLES
    params,     \* the parameters of the well-formed file the input comes from
    change,     \* the one change made to it
    image_byte_array,
    pc,         \* the statement __main__ is at; "done" after the last one
    err,        \* the raise that ended the run at pc, or "none"
    oob,        \* some read so far named bytes past the end of the buffer
    series_version, data_type_ID, tag_type_ID,
    offset_array_offset_length, offset_array_offset, N_Dimensions,
    ND, DM_offset,
    dim_cursor_list,    \* byte_offset of get_Dimension_Size in each pass
    calibration_element_list, calibration_offset_list, calibration_delta_list,
    description_lenghth_list, element_description_list,
    units_length_list, units_description_list,
    Data_Offset_Array, Tag_Offset_Array,
    time_stamp_list, position_tag_list,
    data_calibration_offset_list, data_calibration_delta_list,
    data_calibration_element_list, data_type_list,
    data_array_lenght_list, data_array_list,
    test_output_png,    \* what the file ./test_output.png holds
    run,        \* 1 for the first run of the script, 2 for the second
    first       \* the file the first run read and how that run ended

inputVars == <<params, change, image_byte_array>>
headerVars == <<series_version, data_type_ID, tag_type_ID,
                offset_array_offset_length, offset_array_offset, N_Dimensions>>
dimVars == <<DM_offset, dim_cursor_list,
             calibration_element_list, calibration_offset_list,
             calibration_delta_list, description_lenghth_list,
             element_description_list, units_length_list, units_description_list>>
offsetVars == <<Data_Offset_Array, Tag_Offset_Array>>
elementVars == <<time_stamp_list, position_tag_list,
                 data_calibration_offset_list, data_calibration_delta_list,
                 data_calibration_element_list, data_type_list,
                 data_array_lenght_list, data_array_list>>
runVars == <<run, first>>
vars == <<inputVars, pc, err, oob, headerVars, ND, dimVars, offsetVars, elementVars,
          test_output_png, runVars>>

\* how a run ended: where, with which raise, and everything it decoded and wrote
Outcome == <<pc, err, headerVars, ND, dimVars, offsetVars, elementVars, test_output_png>>

\* the script has ended: after its last statement, or with a raise
Ended == pc = "done" \/ err # "none"

\* numpy.zeros(n) and numpy.zeros((n, 2))
Zeros(n, zero) == [i \in 1..n |-> zero]

\* a read of buf[lo:hi] that names bytes past the end of the buffer
Past(b, lo, hi) == hi > lo /\ hi > Len(b)

Init ==
    /\ params \in Params
    /\ \E w \in {Build(params)} :
          /\ change \in Changes(params)
          /\ image_byte_array = Apply(change, w)
    /\ pc = "check_series"
    /\ err = "none"
    /\ oob = FALSE
    /\ series_version = 0 /\ data_type_ID = 0 /\ tag_type_ID = 0
    /\ offset_array_offset_length = 0 /\ offset_array_offset = 0
    /\ N_Dimensions = 0
    /\ ND = 0 /\ DM_offset = 0
    /\ dim_cursor_list = <<>>
    /\ calibration_element_list = <<>> /\ calibration_offset_list = <<>>
    /\ calibration_delta_list = <<>> /\ description_lenghth_list = <<>>
    /\ element_description_list = <<>> /\ units_length_list = <<>>
    /\ units_description_list = <<>>
    /\ Data_Offset_Array = <<>> /\ Tag_Offset_Array = <<>>
    /\ time_stamp_list = <<>> /\ position_tag_list = <<>>
    /\ data_calibration_offset_list = <<>> /\ data_calibration_delta_list = <<>>
    /\ data_calibration_element_list = <<>> /\ data_type_list = <<>>
    /\ data_array_lenght_list = <<>> /\ data_array_list = <<>>
    /\ test_output_png = NoImage
    /\ run = 1
    /\ first = [buffer |-> <<>>, outcome |-> <<>>]

\* a raise caught by a handler that lets the script finish
Fail_caught_at_top_level(e) == err' = e /\ pc' = "done"

\* a statement raised: the script ends there
Fail(e) == err' = e /\ UNCHANGED pc

(***************************************************************************)
(* The header.                                                             *)
(***************************************************************************)
CheckSeries ==
    /\ pc = "check_series" /\ err = "none"
    /\ LET b == image_byte_array
           e == check_series_ID_and_Version(b)
       IN  /\ oob' = (oob \/ Past(b, 0, 2)
                          \/ (e # "InvalidByteOrder" /\ (Past(b, 2, 4) \/ Past(b, 4, 6))))
           /\ IF e # "none"
              THEN Fail(e) /\ UNCHANGED series_version
              ELSE /\ series_version' = SeriesVersionOf(b)
                   /\ pc' = "data_and_tag"
                   /\ UNCHANGED err
    /\ UNCHANGED <<inputVars, test_output_png, runVars, data_type_ID, tag_type_ID, offset_array_offset_length,
                   offset_array_offset, N_Dimensions, ND, dimVars, offsetVars,
                   elementVars>>

DataAndTag ==
    /\ pc = "data_and_tag" /\ err = "none"
    /\ LET b == image_byte_array
           e == get_data_and_tag_ID(b)
       IN  /\ oob' = (oob \/ Past(b, 6, 10)
                          \/ (e # "UnsupportedDataType" /\ Past(b, 10, 14)))
           /\ IF e # "none"
              THEN Fail(e) /\ UNCHANGED <<data_type_ID, tag_type_ID>>
              ELSE /\ data_type_ID' = DataTypeIDOf(b)
                   /\ tag_type_ID' = TagTypeIDOf(b)
                   /\ pc' = "element_num"
                   /\ UNCHANGED err
    /\ UNCHANGED <<inputVars, test_output_png, runVars, series_version, offset_array_offset_length,
                   offset_array_offset, N_Dimensions, ND, dimVars, offsetVars,
                   elementVars>>

ElementNum ==
    /\ pc = "element_num" /\ err = "none"
    /\ LET b == image_byte_array
           e == get_total_and_valid_element_num(b)
       IN  /\ oob' = (oob \/ Past(b, 14, 18) \/ Past(b, 18, 22))
           /\ IF e # "none"
              THEN Fail(e)
              ELSE pc' = "offset_array_offset" /\ UNCHANGED err
    /\ UNCHANGED <<inputVars, test_output_png, runVars, headerVars, ND, dimVars, offsetVars, elementVars>>

\* get_Offset_Array_Offset, get_Number_of_Dimensions and the lists the
\* dimension loop fills
OffsetArrayOffset ==
    /\ pc = "offset_array_offset" /\ err = "none"
    /\ LET b == image_byte_array
           W == OffsetLength(series_version)
           N == get_Number_of_Dimensions(b, W)
       IN  /\ oob' = (oob \/ Past(b, 22, 22 + W) \/ Past(b, 22 + W, 26 + W))
           /\ offset_array_offset_length' = W
           /\ offset_array_offset' = get_Offset_Array_Offset(b, series_version)
           /\ N_Dimensions' = N
           /\ DM_offset' = 0
           /\ ND' = 0
           /\ dim_cursor_list' = <<>>
           /\ calibration_element_list' = Zeros(N, 0)
           /\ calibration_offset_list' = Zeros(N, FloatZero)
           /\ calibration_delta_list' = Zeros(N, FloatZero)
           /\ description_lenghth_list' = Zeros(N, 0)
           /\ element_description_list' = <<>>
           /\ units_length_list' = Zeros(N, 0)
           /\ units_description_list' = <<>>
           /\ pc' = "dimension"
    /\ UNCHANGED <<inputVars, test_output_png, runVars, err, series_version, data_type_ID, tag_type_ID,
                   offsetVars, elementVars>>

(***************************************************************************)
(* The dimension array.                                                    *)
(***************************************************************************)
\* one pass of the loop over the dimensions
Dimension ==
    /\ pc = "dimension" /\ err = "none"
    /\ ND < N_Dimensions
    /\ LET b == image_byte_array
           W == offset_array_offset_length
           dm == DM_offset
           calOk == get_Calibration_Element_Ok(b, W, dm)
           dlen == get_Description_Length(b, W, dm)
           desc == get_Element_Description(b, W, dlen, dm)
           descOk == calOk /\ Utf8Ok(desc)
           ulen == get_Units_Length(b, W, dlen, dm)
           units == get_Units_Description(b, W, dlen, ulen, dm)
           unitsOk == descOk /\ (ulen = 0 \/ Utf8Ok(units))
       IN  /\ dim_cursor_list' = Append(dim_cursor_list, DimCursor(W, dm))
           /\ oob' = (\/ oob
                      \/ Past(b, DimCursor(W, dm), 30 + W + dm + 16)
                      \/ (calOk /\ Past(b, 30 + W + dm + 16, 54 + W + dm + dlen))
                      \/ (descOk /\ Past(b, UnitsLengthPos(W, dlen, dm),
                                         58 + W + dlen + dm + ulen)))
           /\ IF calOk
              THEN /\ calibration_element_list' =
                        [calibration_element_list EXCEPT ![ND + 1] = CalibrationElementOf(b, W, dm)]
                   /\ calibration_offset_list' =
                        [calibration_offset_list EXCEPT ![ND + 1] = CalibrationOffsetBytes(b, W, dm)]
                   /\ calibration_delta_list' =
                        [calibration_delta_list EXCEPT ![ND + 1] = CalibrationDeltaBytes(b, W, dm)]
                   /\ description_lenghth_list' =
                        [description_lenghth_list EXCEPT ![ND + 1] = dlen]
              ELSE UNCHANGED <<calibration_element_list, calibration_offset_list,
                               calibration_delta_list, description_lenghth_list>>
           /\ IF descOk
              THEN /\ element_description_list' = Append(element_description_list, desc)
                   /\ units_length_list' = [units_length_list EXCEPT ![ND + 1] = ulen]
              ELSE UNCHANGED <<element_description_list, units_length_list>>
           /\ IF unitsOk
              THEN /\ units_description_list' =
                        Append(units_description_list,
                               [present |-> ulen # 0, text |-> IF ulen = 0 THEN <<>> ELSE units])
                   /\ DM_offset' = DM_offset + DM_advance(dlen, ulen)
                   /\ ND' = ND + 1
                   /\ UNCHANGED <<pc, err>>
              ELSE /\ Fail(IF calOk THEN "UnicodeDecodeError" ELSE "StructError")
                   /\ UNCHANGED <<units_description_list, DM_offset, ND>>
    /\ UNCHANGED <<inputVars, test_output_png, runVars, headerVars, offsetVars, elementVars>>

\* the assert after the loop
Alignment ==
    /\ pc = "dimension" /\ err = "none"
    /\ ND = N_Dimensions
    /\ IF dimensions_array_end_byte_offset(offset_array_offset_length, N_Dimensions,
                                           DM_offset) = offset_array_offset
       THEN pc' = "data_offsets" /\ UNCHANGED err
       ELSE Fail("DimensionArrayMisaligned")
    /\ UNCHANGED <<inputVars, test_output_png, runVars, oob, headerVars, ND, dimVars, offsetVars, elementVars>>

(***************************************************************************)
(* The offset arrays.                                                      *)
(***************************************************************************)
DataOffsets ==
    /\ pc = "data_offsets" /\ err = "none"
    /\ LET b == image_byte_array
           W == OffsetLength(series_version)
           O == offset_array_offset
           N == N_Dimensions
       IN  /\ oob' = (oob \/ \E i \in 0..(N - 1) : Past(b, O, O + (i + 1) * W))
           /\ IF get_Data_Offset_Array_Overflows(b, O, W, N)
              THEN Fail("OverflowError") /\ UNCHANGED Data_Offset_Array
              ELSE /\ Data_Offset_Array' = get_Data_Offset_Array(b, O, W, N)
                   /\ pc' = "tag_offsets"
                   /\ UNCHANGED err
    /\ UNCHANGED <<inputVars, test_output_png, runVars, headerVars, ND, dimVars, Tag_Offset_Array, elementVars>>

\* get_Tag_Offset_Array and the lists the element loop fills
TagOffsets ==
    /\ pc = "tag_offsets" /\ err = "none"
    /\ LET b == image_byte_array
           W == OffsetLength(series_version)
           O == offset_array_offset
           N == N_Dimensions
           L == Len(Data_Offset_Array)
       IN  /\ oob' = (oob \/ \E i \in 0..(N - 1) :
                                Past(b, O + L * W, O + L * W + (i + 1) * W))
           /\ IF get_Tag_Offset_Array_Overflows(b, O, W, N, L)
              THEN Fail("OverflowError") /\ UNCHANGED <<Tag_Offset_Array, ND, elementVars>>
              ELSE /\ Tag_Offset_Array' = get_Tag_Offset_Array(b, O, W, N, L)
                   /\ time_stamp_list' = Zeros(N, 0)
                   /\ position_tag_list' =
                        IF tag_type_ID = TagTimeOnly THEN <<>>
                        ELSE Zeros(N, <<FloatZero, FloatZero>>)
                   /\ IF data_type_ID = DataType1D
                      THEN /\ data_calibration_offset_list' = Zeros(N, FloatZero)
                           /\ data_calibration_delta_list' = Zeros(N, FloatZero)
                           /\ data_calibration_element_list' = Zeros(N, 0)
                           /\ data_type_list' = Zeros(N, 0)
                           /\ data_array_lenght_list' = Zeros(N, 0)
                           /\ data_array_list' = <<>>
                      ELSE IF data_type_ID = DataType2D
                      THEN /\ data_calibration_offset_list' = Zeros(N, <<FloatZero, FloatZero>>)
                           /\ data_calibration_delta_list' = Zeros(N, <<FloatZero, FloatZero>>)
                           /\ data_calibration_element_list' = Zeros(N, <<0, 0>>)
                           /\ data_type_list' = Zeros(N, 0)
                           /\ data_array_lenght_list' = Zeros(N, <<0, 0>>)
                           /\ data_array_list' = <<>>
                      ELSE UNCHANGED <<data_calibration_offset_list,
                                       data_calibration_delta_list,
                                       data_calibration_element_list,
                                       data_type_list, data_array_lenght_list,
                                       data_array_list>>
                   /\ ND' = 0
                   /\ pc' = IF N = 0 THEN "done" ELSE "tag"
                   /\ UNCHANGED err
    /\ UNCHANGED <<inputVars, test_output_png, runVars, headerVars, dimVars, Data_Offset_Array>>

(***************************************************************************)
(* The element loop: the tag of element ND, then its data.                 *)
(***************************************************************************)
\* the first raise of get_TimeOnlyTag, or "none"
get_TimeOnlyTag(b, TagOffset, TagTypeID) ==
    IF ~TagTypeMatches(b, TagOffset, TagTypeID) THEN "TagTypeMismatch" ELSE "none"

\* the first raise of get_Time_and_PositionTag, or "none"
get_Time_and_PositionTag(b, TagOffset, TagTypeID) ==
    IF ~TagTypeMatches(b, TagOffset, TagTypeID) THEN "TagTypeMismatch"
    ELSE IF ~UnpackOk(PositionXBytes(b, TagOffset), 8) THEN "StructError"
    ELSE IF ~UnpackOk(PositionYBytes(b, TagOffset), 8) THEN "StructError"
    ELSE "none"

ReadTag ==
    /\ pc = "tag" /\ err = "none"
    /\ LET b == image_byte_array
           T == Tag_Offset_Array[ND + 1]
           e == IF tag_type_ID = TagTimeOnly
                THEN get_TimeOnlyTag(b, T, tag_type_ID)
                ELSE get_Time_and_PositionTag(b, T, tag_type_ID)
       IN  /\ oob' = (\/ oob
                      \/ Past(b, T, T + 4)
                      \/ (e # "TagTypeMismatch" /\ Past(b, T + 4, T + 8))
                      \/ (e # "TagTypeMismatch" /\ tag_type_ID = TagTimeAndPosition
                            /\ Past(b, T + 8, T + 16)))
           /\ IF e # "none"
              THEN Fail(e) /\ UNCHANGED <<time_stamp_list, position_tag_list>>
              ELSE /\ time_stamp_list' =
                        [time_stamp_list EXCEPT ![ND + 1] = TagTimeStamp(b, T)]
                   /\ position_tag_list' =
                        IF tag_type_ID = TagTimeOnly THEN position_tag_list
                        ELSE [position_tag_list EXCEPT
                                ![ND + 1] = <<PositionXBytes(b, T), PositionYBytes(b, T)>>]
                   /\ pc' = "element"
                   /\ UNCHANGED err
    /\ UNCHANGED <<inputVars, test_output_png, runVars, headerVars, ND, dimVars, offsetVars,
                   data_calibration_offset_list, data_calibration_delta_list,
                   data_calibration_element_list, data_type_list,
                   data_array_lenght_list, data_array_list>>

\* a save that raises when ./test_output.png is already there
save_refuses_to_overwrite(X, Y, ElementIndexX, ElementIndexY) ==
    /\ ElementIndexX < X
    /\ ElementIndexY < Y
    /\ X <= Y
    /\ test_output_png = NoImage

\* save_2DdataElemwntAsImage raises no IndexError: the reference pixel is
\* inside the X-by-Y array and the inner loop, which runs to X, stays in Y
save_2DdataElemwntAsImage_Ok(X, Y, ElementIndexX, ElementIndexY) ==
    /\ ElementIndexX < X
    /\ ElementIndexY < Y
    /\ X <= Y

\* the rest of the loop body: the unconditional get_2DdataElementHeader call,
\* then the branch of data_type_ID.  The 1-D branch ends in a NameError: it
\* calls get_1DdataElementData, and the module only defines
\* get_2DdataElementData (twice).
ReadElement ==
    /\ pc = "element" /\ err = "none"
    /\ LET b == image_byte_array
           d == Data_Offset_Array[ND + 1]
           a == get_2DdataElementHeader(b, d)
           h1 == Header1D(b, d)
           h2 == Header2D(b, d)
           X == h2.size[1]
           Y == h2.size[2]
           e1 == IF a # "none" THEN a ELSE get_1DdataElementHeader(b, d)
           e2 == IF a # "none" THEN a
                 ELSE get_2DdataElementData(b, d, h2.dataType, X, Y)
           saved == save_2DdataElemwntAsImage_Ok(X, Y, h2.element[1], h2.element[2])
       IN  /\ oob' = (\/ oob
                      \/ Past(b, d, d + 40)
                      \/ (a \in {"none", "StructError"} /\ Past(b, d + 40, d + 42))
                      \/ (a = "none" /\ data_type_ID = DataType2D /\ Past(b, d + 42, d + 50))
                      \/ (a = "none" /\ data_type_ID = DataType2D
                            /\ h2.dataType = SampleU16
                            /\ Past(b, d + 50, d + 50 + 2 * SizeProduct(X, Y))))
           /\ IF data_type_ID = DataType1D
              THEN /\ Fail(IF e1 # "none" THEN e1 ELSE "NameError")
                   /\ IF e1 = "none"
                      THEN /\ data_calibration_offset_list' =
                                [data_calibration_offset_list EXCEPT ![ND + 1] = h1.offset]
                           /\ data_calibration_delta_list' =
                                [data_calibration_delta_list EXCEPT ![ND + 1] = h1.delta]
                           /\ data_calibration_element_list' =
                                [data_calibration_element_list EXCEPT ![ND + 1] = h1.element]
                           /\ data_type_list' = [data_type_list EXCEPT ![ND + 1] = h1.dataType]
                           /\ data_array_lenght_list' =
                                [data_array_lenght_list EXCEPT ![ND + 1] = h1.size]
                      ELSE UNCHANGED <<data_calibration_offset_list,
                                       data_calibration_delta_list,
                                       data_calibration_element_list,
                                       data_type_list, data_array_lenght_list>>
                   /\ UNCHANGED <<data_array_list, ND, test_output_png>>
              ELSE IF data_type_ID = DataType2D
              THEN /\ IF a = "none"
                      THEN /\ data_calibration_offset_list' =
                                [data_calibration_offset_list EXCEPT ![ND + 1] = h2.offset]
                           /\ data_calibration_delta_list' =
                                [data_calibration_delta_list EXCEPT ![ND + 1] = h2.delta]
                           /\ data_calibration_element_list' =
                                [data_calibration_element_list EXCEPT ![ND + 1] = h2.element]
                           /\ data_type_list' = [data_type_list EXCEPT ![ND + 1] = h2.dataType]
                           /\ data_array_lenght_list' =
                                [data_array_lenght_list EXCEPT ![ND + 1] = h2.size]
                      ELSE UNCHANGED <<data_calibration_offset_list,
                                       data_calibration_delta_list,
                                       data_calibration_element_list,
                                       data_type_list, data_array_lenght_list>>
                   /\ data_array_list' =
                        IF e2 = "none" THEN Append(data_array_list, Image_Array(b, d, X, Y))
                        ELSE data_array_list
                   /\ IF e2 # "none" THEN Fail(e2) /\ UNCHANGED <<ND, test_output_png>>
                      ELSE IF ~saved
                      THEN Fail("IndexError") /\ UNCHANGED <<ND, test_output_png>>
                      ELSE /\ test_output_png' =
                                ScaledImage(Image_Array(b, d, X, Y), X, Y,
                                            h2.offset[1], h2.delta[1],
                                            h2.element[1], h2.element[2])
                           /\ ND' = ND + 1
                           /\ pc' = IF ND + 1 = N_Dimensions THEN "done" ELSE "tag"
                           /\ UNCHANGED err
              ELSE /\ IF a # "none" THEN Fail(a) /\ UNCHANGED ND
                      ELSE /\ ND' = ND + 1
                           /\ pc' = IF ND + 1 = N_Dimensions THEN "done" ELSE "tag"
                           /\ UNCHANGED err
                   /\ UNCHANGED <<data_calibration_offset_list, data_calibration_delta_list,
                                  data_calibration_element_list, data_type_list,
                                  data_array_lenght_list, data_array_list,
                                  test_output_png>>
    /\ UNCHANGED <<inputVars, runVars, headerVars, dimVars, offsetVars,
                   time_stamp_list, position_tag_list>>

(***************************************************************************)
(* The script is run a second time: a new process, with every variable of  *)
(* the first gone, reads the same file again, or the file with its total   *)
(* count put back to its valid count.  What is on disk stays.              *)
(***************************************************************************)
Rerun ==
    /\ run = 1 /\ Ended
    /\ first' = [buffer |-> image_byte_array, outcome |-> Outcome]
    /\ run' = 2
    /\ change' \in {change} \cup (IF change.kind = "totalCount" THEN {NoChange} ELSE {})
    /\ \E w \in {Build(params)} : image_byte_array' = Apply(change', w)
    /\ pc' = "check_series"
    /\ err' = "none"
    /\ oob' = FALSE
    /\ series_version' = 0 /\ data_type_ID' = 0 /\ tag_type_ID' = 0
    /\ offset_array_offset_length' = 0 /\ offset_array_offset' = 0
    /\ N_Dimensions' = 0
    /\ ND' = 0 /\ DM_offset' = 0
    /\ dim_cursor_list' = <<>>
    /\ calibration_element_list' = <<>> /\ calibration_offset_list' = <<>>
    /\ calibration_delta_list' = <<>> /\ description_lenghth_list' = <<>>
    /\ element_description_list' = <<>> /\ units_length_list' = <<>>
    /\ units_description_list' = <<>>
    /\ Data_Offset_Array' = <<>> /\ Tag_Offset_Array' = <<>>
    /\ time_stamp_list' = <<>> /\ position_tag_list' = <<>>
    /\ data_calibration_offset_list' = <<>> /\ data_calibration_delta_list' = <<>>
    /\ data_calibration_element_list' = <<>> /\ data_type_list' = <<>>
    /\ data_array_lenght_list' = <<>> /\ data_array_list' = <<>>
    /\ UNCHANGED <<params, test_output_png>>

Next ==
    \/ CheckSeries
    \/ DataAndTag
    \/ ElementNum
    \/ OffsetArrayOffset
    \/ Dimension
    \/ Alignment
    \/ DataOffsets
    \/ TagOffsets
    \/ ReadTag
    \/ ReadElement
    \/ Rerun

Spec == Init /\ [][Next]_vars

(***************************************************************************)
(* Properties.                                                             *)
(***************************************************************************)
RECURSIVE SumSeq(_)
SumSeq(q) == IF q = <<>> THEN 0 ELSE Head(q) + SumSeq(Tail(q))

\* the statements after the alignment assert
PostAlignment == {"data_offsets", "tag_offsets", "tag", "element", "done"}

\* the little-endian integer in the w bytes at pos
FieldAt(pos, w) == FromBytesLE(Slice(image_byte_array, pos, pos + w))

\* C1: entry i of the decoded data offsets is the integer in exactly the W
\* bytes at offsetArrayOffset + i*W, and entry i of the tag offsets the one in
\* the W bytes at offsetArrayOffset + numDimensions*W + i*W.
C1_OffsetsReadWBytesEach ==
    LET W == offset_array_offset_length
        O == offset_array_offset
    IN  /\ \A i \in 1..Len(Data_Offset_Array) :
              Data_Offset_Array[i] = FieldAt(O + (i - 1) * W, W)
        /\ \A i \in 1..Len(Tag_Offset_Array) :
              Tag_Offset_Array[i] = FieldAt(O + N_Dimensions * W + (i - 1) * W, W)

\* C2: descriptor k is read at 26 + W plus, for every earlier descriptor, 32
\* and its description and units lengths.
C2_CursorAdvancesByFullDescriptor ==
    \A k \in 1..Len(dim_cursor_list) :
        dim_cursor_list[k] =
            26 + offset_array_offset_length + 32 * (k - 1)
            + SumSeq(SubSeq(description_lenghth_list, 1, k - 1))
            + SumSeq(SubSeq(units_length_list, 1, k - 1))

\* the bytes the descriptors take, by the lengths the decoder read
ConsumedBytes ==
    26 + offset_array_offset_length + 32 * N_Dimensions
    + SumSeq(description_lenghth_list) + SumSeq(units_length_list)

\* C3: the run gets past the alignment assert only with the consumed bytes
\* equal to offsetArrayOffset; it fails there exactly on a mismatch, and then
\* no offset array and no element has been decoded.
C3_AlignmentGuardsTheOffsetArrays ==
    /\ pc \in PostAlignment => ConsumedBytes = offset_array_offset
    /\ err = "DimensionArrayMisaligned" =>
          /\ pc = "dimension" /\ ND = N_Dimensions
          /\ ConsumedBytes # offset_array_offset
          /\ Data_Offset_Array = <<>> /\ Tag_Offset_Array = <<>>
          /\ time_stamp_list = <<>> /\ data_array_list = <<>>

\* a series of one descriptor with strings is decoded to the end
C3_Witness ==
    /\ pc = "done" /\ N_Dimensions = 1
    /\ description_lenghth_list[1] > 0
    /\ ConsumedBytes = offset_array_offset

C5_OnlyTwoDataTypeCodes ==
    pc \notin {"check_series", "data_and_tag"} =>
        data_type_ID \in {DataType1D, DataType2D}

\* C6: a read that names bytes past the end of the buffer ends the run.
C6_ReadPastEndFails == oob => err # "none"

\* the tags decoded so far: the loop is at the data of element ND, or at the
\* tag of element ND, or past the last element
TagsDecoded ==
    IF pc = "element" THEN ND + 1 ELSE IF pc \in {"tag", "done"} THEN ND ELSE 0

\* C7: with tag type TimeAndPosition a tag whose discriminator matches and
\* whose 24 bytes are in the buffer is decoded: the time stamp from T+4..T+8,
\* X from T+8..T+16 and Y from T+16..T+24.
C7_TimeAndPositionTagDecodes ==
    tag_type_ID = TagTimeAndPosition =>
        /\ (/\ pc = "tag"
            /\ TagTypeMatches(image_byte_array, Tag_Offset_Array[ND + 1], tag_type_ID)
            /\ Tag_Offset_Array[ND + 1] + 24 <= Len(image_byte_array))
           => err = "none"
        /\ \A i \in 1..TagsDecoded :
              /\ time_stamp_list[i] = FieldAt(Tag_Offset_Array[i] + 4, 4)
              /\ position_tag_list[i] =
                    <<Slice(image_byte_array, Tag_Offset_Array[i] + 8,
                            Tag_Offset_Array[i] + 16),
                      Slice(image_byte_array, Tag_Offset_Array[i] + 16,
                            Tag_Offset_Array[i] + 24)>>

\* the 1-D element at d is whole: 26 header bytes, 16-bit unsigned samples,
\* and all of them in the buffer
WellFormed1D(d) ==
    /\ d + 26 <= Len(image_byte_array)
    /\ FieldAt(d + 20, 2) = SampleU16
    /\ d + 26 + 2 * FieldAt(d + 22, 4) <= Len(image_byte_array)

\* C8: in a 1-D series a whole element with 16-bit unsigned samples is
\* decoded, with no 2-D check applied to it, to its n samples in file order.
C8_OneDElementDecodes ==
    data_type_ID = DataType1D =>
        /\ (pc = "element" /\ WellFormed1D(Data_Offset_Array[ND + 1])) => err = "none"
        /\ \A i \in 1..Len(data_array_list) :
              data_array_list[i] =
                  UnpackU16(Slice(image_byte_array, Data_Offset_Array[i] + 26,
                                  Data_Offset_Array[i] + 26
                                    + 2 * FieldAt(Data_Offset_Array[i] + 22, 4)))

\* the elements whose data has been decoded so far
ElementsDecoded == IF pc \in {"tag", "element", "done"} THEN ND ELSE 0

OffsetBitsDiffer(d) ==
    Calibration_Offset_X(image_byte_array, d) # Calibration_Offset_Y(image_byte_array, d)
DeltaBitsDiffer(d) ==
    Calibration_Delta_X(image_byte_array, d) # Calibration_Delta_Y(image_byte_array, d)

OffsetValuesDiffer(d) ==
    ~FloatEq(Calibration_Offset_X(image_byte_array, d),
             Calibration_Offset_Y(image_byte_array, d))
DeltaValuesDiffer(d) ==
    ~FloatEq(Calibration_Delta_X(image_byte_array, d),
             Calibration_Delta_Y(image_byte_array, d))

\* the element loop raised at the data of element ND, whose four calibration
\* floats are in the buffer
ElementRaised ==
    /\ pc = "element" /\ err # "none"
    /\ Calibration2DReadable(image_byte_array, Data_Offset_Array[ND + 1])

\* C9 as stated: in a 2-D series an element fails with
\* AnisotropicCalibrationMismatch if the bit patterns of its X and Y
\* calibration offsets, or of its deltas, differ, and passes the check if both
\* pairs are bit-identical.
C9_BitPatternsDecide ==
    data_type_ID = DataType2D =>
        /\ \A i \in 1..ElementsDecoded :
              /\ ~OffsetBitsDiffer(Data_Offset_Array[i])
              /\ ~DeltaBitsDiffer(Data_Offset_Array[i])
        /\ ElementRaised =>
              (err = "AnisotropicCalibrationMismatch"
                 <=> (\/ OffsetBitsDiffer(Data_Offset_Array[ND + 1])
                      \/ DeltaBitsDiffer(Data_Offset_Array[ND + 1])))

\* C9 amended: in a 2-D series an element fails with
\* AnisotropicCalibrationMismatch if its X and Y calibration offsets, or its
\* deltas, compare unequal as float64 values (a NaN is unequal to itself), and
\* passes the check if both pairs compare equal (+0.0 equals -0.0).
C9_FloatValuesDecide ==
    data_type_ID = DataType2D =>
        /\ \A i \in 1..ElementsDecoded :
              /\ ~OffsetValuesDiffer(Data_Offset_Array[i])
              /\ ~DeltaValuesDiffer(Data_Offset_Array[i])
        /\ ElementRaised =>
              (err = "AnisotropicCalibrationMismatch"
                 <=> (\/ OffsetValuesDiffer(Data_Offset_Array[ND + 1])
                      \/ DeltaValuesDiffer(Data_Offset_Array[ND + 1])))

\* a 2-D element whose Y delta was changed fails the check
C9_Witness ==
    /\ data_type_ID = DataType2D /\ ElementRaised
    /\ err = "AnisotropicCalibrationMismatch"
    /\ DeltaValuesDiffer(Data_Offset_Array[ND + 1])
    /\ ~OffsetValuesDiffer(Data_Offset_Array[ND + 1])

\* C10: every tag decoded has the header's tag type ID in the 4 bytes at its
\* tag offset; a tag with another value there fails with TagTypeMismatch, and
\* the data of that element is not decoded.
C10_TagTypeChecked ==
    /\ \A i \in 1..TagsDecoded :
          TagDiscriminator(image_byte_array, Tag_Offset_Array[i]) = tag_type_ID
    /\ (/\ pc = "tag" /\ err # "none"
        /\ TagDiscriminator(image_byte_array, Tag_Offset_Array[ND + 1]) # tag_type_ID)
       => err = "TagTypeMismatch"
    /\ err = "TagTypeMismatch" =>
          /\ pc = "tag"
          /\ TagDiscriminator(image_byte_array, Tag_Offset_Array[ND + 1]) # tag_type_ID
          /\ Len(data_array_list) <= ND
          /\ data_type_ID \in {DataType1D, DataType2D} => data_type_list[ND + 1] = 0

\* header tag type TimeOnly, the tag of an element says TimeAndPosition
C10_Witness ==
    /\ err = "TagTypeMismatch" /\ tag_type_ID = TagTimeOnly
    /\ TagDiscriminator(image_byte_array, Tag_Offset_Array[ND + 1]) = TagTimeAndPosition

\* the 2-byte sample code of the element at d, where the series' kind of
\* element has it
SampleCodeAt(d) == FieldAt(d + (IF data_type_ID = DataType2D THEN 40 ELSE 20), 2)

\* the loop is at the data of element ND, whose header is whole and passes the
\* calibration check, and the sample code of that element is not 2
OtherSampleCode ==
    /\ pc = "element"
    /\ Data_Offset_Array[ND + 1] + 50 <= Len(image_byte_array)
    /\ get_2DdataElementHeader(image_byte_array, Data_Offset_Array[ND + 1]) = "none"
    /\ SampleCodeAt(Data_Offset_Array[ND + 1]) # SampleU16

\* C11: in a 1-D or 2-D series an element whose sample code is not the 16-bit
\* unsigned code ends the run with UnsupportedSampleEncoding, and every
\* element whose samples were decoded has the 16-bit unsigned code.
C11_OtherSampleCodeIsUnsupported ==
    data_type_ID \in {DataType1D, DataType2D} =>
        /\ (OtherSampleCode /\ err # "none") => err = "UnsupportedSampleEncoding"
        /\ \A i \in 1..Len(data_array_list) :
              SampleCodeAt(Data_Offset_Array[i]) = SampleU16

\* the 16-bit little-endian value of sample k (from 1) of the element at d
SampleAt(d, k) ==
    image_byte_array[d + 50 + 2 * (k - 1) + 1]
    + 256 * image_byte_array[d + 50 + 2 * (k - 1) + 2]

\* C12: in a 2-D series the samples decoded for element i are the w*h 16-bit
\* little-endian values stored from data offset + 50 on, in file order, all
\* of them inside the buffer; the 2 x 2 element with sample bytes
\* 0A00 0B00 0C00 0D00 gives 10, 11, 12, 13, reshaped to (10, 11), (12, 13).
C12_SamplesInFileOrder ==
    data_type_ID = DataType2D =>
        /\ \A i \in 1..Len(data_array_list) :
              LET d == Data_Offset_Array[i]
                  w == FieldAt(d + 42, 4)
                  h == FieldAt(d + 46, 4)
              IN  /\ d + 50 + 2 * (w * h) <= Len(image_byte_array)
                  /\ data_array_list[i] = [k \in 1..(w * h) |-> SampleAt(d, k)]
        /\ (pc = "done" /\ N_Dimensions = 1 /\ change = NoChange) =>
              /\ data_array_list[1] = <<10, 11, 12, 13>>
              /\ test_output_png.rows = <<(<<10, 11>>), (<<12, 13>>)>>

\* an element of one row of two samples is decoded from a file that holds
\* four samples
C12_Witness ==
    /\ data_type_ID = DataType2D /\ pc = "done"
    /\ change.kind = "sizeX"
    /\ data_array_list = <<(<<10, 11>>)>>

\* the statements after get_total_and_valid_element_num
PastElementNum ==
    {"offset_array_offset", "dimension", "data_offsets", "tag_offsets", "tag",
     "element", "done"}

\* C13: the run fails on the element counts exactly when the total count is
\* below the valid count; a run that ends after its last statement has
\* total >= valid and one tag and one element per dimension; and the file
\* with total > valid ends as the same file with total = valid does.
C13_OnlyTotalBelowValidIsFatal ==
    /\ err = "InvalidElementCount" =>
          pc = "element_num" /\ FieldAt(14, 4) < FieldAt(18, 4)
    /\ pc \in PastElementNum => FieldAt(14, 4) >= FieldAt(18, 4)
    /\ pc = "done" =>
          /\ Len(time_stamp_list) = N_Dimensions
          /\ data_type_ID = DataType2D => Len(data_array_list) = N_Dimensions
    /\ (run = 2 /\ Ended /\ image_byte_array # first.buffer) =>
          /\ FromBytesLE(Slice(first.buffer, 14, 18))
                > FromBytesLE(Slice(first.buffer, 18, 22))
          /\ FieldAt(14, 4) = FieldAt(18, 4)
          /\ Outcome = first.outcome

\* a 2-D series of one element was decoded with total > valid, and decoded
\* again with the counts equal
C13_Witness ==
    /\ run = 2 /\ pc = "done" /\ image_byte_array # first.buffer
    /\ N_Dimensions = 1 /\ Len(data_array_list) = 1
    /\ first.outcome[1] = "done"

\* the statements before the element loop
BeforeElements ==
    {"check_series", "data_and_tag", "element_num", "offset_array_offset",
     "dimension", "data_offsets", "tag_offsets"}

\* the state of a run that failed at element ND of a 1-D or 2-D series:
\* nothing of the later elements is decoded
LaterElementsUntouched ==
    /\ \A i \in (ND + 2)..Len(time_stamp_list) :
          /\ time_stamp_list[i] = 0
          /\ data_type_list[i] = 0
    /\ Len(data_array_list) <= ND + 1

\* the state of a failed run: it is at the failing statement, not after the
\* last one; a failure before the element loop leaves no tag and no element;
\* a failure at element k leaves the elements after k untouched
C14_FailedRun ==
    err # "none" =>
        /\ pc \in BeforeElements \cup {"tag", "element"}
        /\ pc \in BeforeElements => time_stamp_list = <<>> /\ data_array_list = <<>>
        /\ (pc \in {"tag", "element"} /\ data_type_ID \in {DataType1D, DataType2D}) =>
              LaterElementsUntouched

\* C14: every failure ends the run at the failing statement: the run never
\* gets to the end of the script, where the series is complete, takes no
\* further step (the only step left is a new run of the script), and decodes
\* no element after the failing one.
C14_FailureEndsTheRun ==
    /\ []C14_FailedRun
    /\ [][err # "none" => run' # run]_vars

\* a 2-D series of two elements: element 0 is decoded, the run failed at
\* element 1
C14_Witness ==
    /\ err # "none" /\ pc \in {"tag", "element"} /\ ND = 1
    /\ data_type_ID = DataType2D
    /\ Len(data_array_list) = 1

\* the statements after get_Offset_Array_Offset and get_Number_of_Dimensions
PastOffsetArrayOffset ==
    {"dimension", "data_offsets", "tag_offsets", "tag", "element", "done"}

\* C15: with version code 0x210 the width is 4, offsetArrayOffset is the
\* integer in bytes 22..26 and the number of dimensions the one at byte 26;
\* with 0x220 the width is 8, offsetArrayOffset is in bytes 22..30 and the
\* number of dimensions at byte 30; the first descriptor is read at 26 + width,
\* the data offsets start with the width bytes at offsetArrayOffset, and the
\* tag offsets with the width bytes numDimensions * width further on.
C15_VersionFixesTheWidth ==
    pc \in PastOffsetArrayOffset =>
        LET width == IF FieldAt(4, 2) = 528 THEN 4 ELSE 8
        IN  /\ FieldAt(4, 2) \in {528, 544}
            /\ offset_array_offset_length = width
            /\ offset_array_offset = FieldAt(22, width)
            /\ N_Dimensions = FieldAt(22 + width, 4)
            /\ dim_cursor_list # <<>> => dim_cursor_list[1] = 26 + width
            /\ Data_Offset_Array # <<>> =>
                  Data_Offset_Array[1] = FieldAt(offset_array_offset, width)
            /\ Tag_Offset_Array # <<>> =>
                  Tag_Offset_Array[1] =
                      FieldAt(offset_array_offset + N_Dimensions * width, width)

\* a version 0x220 series of one element is decoded with width 8
C15_Witness ==
    /\ pc = "done" /\ series_version = Version220
    /\ offset_array_offset_length = 8
    /\ N_Dimensions = 1 /\ Len(Tag_Offset_Array) = 1

ByteOrderGood == FieldAt(0, 2) = ByteOrderMark
SeriesIDGood == FieldAt(2, 2) = SeriesID
VersionGood == FieldAt(4, 2) \in {Version210, Version220}
DataTypeGood == DataTypeAccepted(FieldAt(6, 4))
TagTypeGood == FieldAt(10, 4) \in {TagTimeOnly, TagTimeAndPosition}

\* a run is at a statement only with every earlier header check passed, and
\* a header failure is that of the first check, in the order byte order,
\* series ID, version, data type ID, tag type ID, that does not pass
EarliestFailureReported ==
    /\ pc # "check_series" => ByteOrderGood /\ SeriesIDGood /\ VersionGood
    /\ pc \notin {"check_series", "data_and_tag"} => DataTypeGood /\ TagTypeGood
    /\ (pc = "check_series" /\ err # "none") =>
          err = IF ~ByteOrderGood THEN "InvalidByteOrder"
                ELSE IF ~SeriesIDGood THEN "InvalidSeriesID"
                ELSE "UnsupportedVersion"
    /\ (pc = "data_and_tag" /\ err # "none") =>
          err = IF ~DataTypeGood THEN "UnsupportedDataType" ELSE "UnsupportedTagType"
    /\ err = "DimensionArrayMisaligned" => pc = "dimension" /\ ND = N_Dimensions
    /\ (pc = "dimension" /\ ND < N_Dimensions) => err # "DimensionArrayMisaligned"

\* pair i of the lists comes from tag offset i and data offset i
PairsFromTheirOffsets ==
    /\ \A i \in 1..TagsDecoded :
          time_stamp_list[i] = FieldAt(Tag_Offset_Array[i] + 4, 4)
    /\ data_type_ID = DataType2D =>
          \A i \in 1..Len(data_array_list) :
              /\ data_calibration_offset_list[i][1] =
                    Slice(image_byte_array, Data_Offset_Array[i], Data_Offset_Array[i] + 8)
              /\ data_array_lenght_list[i] =
                    <<FieldAt(Data_Offset_Array[i] + 42, 4),
                      FieldAt(Data_Offset_Array[i] + 46, 4)>>
              /\ data_array_list[i][1] = SampleAt(Data_Offset_Array[i], 1)

\* one step of a run: the statement after pc in the order of the script
NextInOrder ==
    \/ pc = "check_series" /\ pc' = "data_and_tag"
    \/ pc = "data_and_tag" /\ pc' = "element_num"
    \/ pc = "element_num" /\ pc' = "offset_array_offset"
    \/ pc = "offset_array_offset" /\ pc' = "dimension"
    \/ pc = "dimension" /\ pc' = "dimension" /\ ND < N_Dimensions /\ ND' = ND + 1
    \/ pc = "dimension" /\ pc' = "data_offsets" /\ ND = N_Dimensions
    \/ pc = "data_offsets" /\ pc' = "tag_offsets"
    \/ pc = "tag_offsets" /\ pc' = "tag" /\ ND' = 0
    \/ pc = "tag_offsets" /\ pc' = "done" /\ N_Dimensions = 0
    \/ pc = "tag" /\ pc' = "element" /\ ND' = ND
    \/ pc = "element" /\ pc' = "tag" /\ ND' = ND + 1 /\ ND' < N_Dimensions
    \/ pc = "element" /\ pc' = "done" /\ ND' = ND + 1 /\ ND' = N_Dimensions

\* C17: within a run every step either goes to the next statement in the one
\* order of the script (header checks, dimension array and alignment, data
\* offsets, tag offsets, then tag i and element i for ascending i) or is the
\* raise that ends the run there; the failure of a header with several bad
\* codes is that of the earliest check; and pair i of the result comes from
\* tag offset i and data offset i.
C17_LinearOrderEarliestFailure ==
    /\ [](EarliestFailureReported /\ PairsFromTheirOffsets)
    /\ [][run' = run =>
            \/ err = "none" /\ err' = "none" /\ NextInOrder
            \/ err = "none" /\ err' # "none" /\ pc' = pc /\ ND' = ND]_vars

\* byte order mark, series ID and version are all bad: the failure reported
\* is the byte order
C17_Witness ==
    /\ err = "InvalidByteOrder" /\ ~SeriesIDGood /\ ~VersionGood

====
